---- MODULE Spec2Model ----
(***************************************************************************)
(* Bouncing-ball video stream: the server's simulator and reconciler       *)
(* (server.py) and the client's frame sink, tracker, shared estimate and   *)
(* telemetry sender (client.py).                                           *)
(*                                                                         *)
(* Numbers.  Pixel coordinates of the simulator are integers.  Floating    *)
(* point values (estimates, telemetry fields, errors) are fixed-point      *)
(* integers in thousandths of a pixel ("milli").  Angles are integers in   *)
(* units of a sixteenth of a turn, so pi is HalfTurn.  Timestamps count    *)
(* frame periods: each frame's pts is its predecessor's plus one.  A       *)
(* timestamp is written as two halves, [hi, lo] for hi * 2^16 + lo with    *)
(* 0 <= lo < 2^16, so that values at and beyond 2^31 can be written.       *)
(***************************************************************************)
EXTENDS Integers, Sequences, FiniteSets, TLC

----
\* Program constants (server.py, BouncingBallVideoStreamTrack.__init__).
height == 400
width == 800
radius == 30
speed == 20

\* Program constant (client.py, mp.Queue(100)).
QueueCapacity == 100

\* Bounds of the model.
MaxTicks == 4
MaxMsgs == 2
\* Frames of the stream the client receives.
MaxFrames == 2
\* Frames of the long stream that fills the frame queue.
SinkFrames == 102

\* Fixed-point scale: thousandths of a pixel.
Milli == 1000

\* np.pi and 2*np.pi in angle units.
HalfTurn == 8
FullTurn == 2 * HalfTurn

VARIABLES
    \* server.py: BouncingBallVideoStreamTrack
    x, y, angle, pts, position_history,
    \* server.py: what on_message did with each message, and data_channel.send
    handled, acks,
    \* client.py, event loop: the coroutine holding the loop's thread
    loop,
    \* client.py, FrameDisplay.show: position, frames received, the pts of the
    \* next frame of the stream, the frame in put()
    show_pc, rx_count, rx_pts, show_frame,
    \* client.py: mp.Queue(100), and the frames put and got so far
    frame_queue, pushed, popped,
    \* client.py, track_ball_position: position, and its locals pos and pts
    tracker_pc, pos, frame_pts,
    \* client.py: the shared mp.Value objects
    pos_x, pos_y, timestamp,
    \* client.py, send_position_on_change: position, locals, channel.send
    sender_pc, prev_pos_x, prev_pos_y, prev_timestamp, msg_x, msg_y, sent,
    \* client.py, handle_answer.on_message: the last line printed
    printed,
    \* the data channel's readyState, as the client sees it
    channel,
    \* what the server's parsing makes of a serialized estimate
    parsed,
    \* history of the run: the frame each shared field was last written
    \* from, the frames the fields of the message being built were read
    \* from, and what the tracker wrote relative to the sender's polls
    src, msg_src, wr

server_vars == <<x, y, angle, pts, position_history, handled, acks>>
show_vars == <<show_pc, rx_count, rx_pts, show_frame>>
queue_vars == <<frame_queue, pushed, popped>>
tracker_vars == <<tracker_pc, pos, frame_pts>>
shared_vars == <<pos_x, pos_y, timestamp>>
sender_vars == <<sender_pc, prev_pos_x, prev_pos_y, prev_timestamp, msg_x, msg_y, sent>>
history_vars == <<src, msg_src, wr>>
link_vars == <<channel, parsed>>
client_vars == <<loop, show_vars, queue_vars, tracker_vars, shared_vars,
                 sender_vars, printed, history_vars, link_vars>>

vars == <<server_vars, client_vars>>

----
\* Arithmetic helpers.

Abs(v) == IF v < 0 THEN -v ELSE v

\* int(v) of a float n/d: truncation toward zero.
Trunc(n, d) == IF n >= 0 THEN n \div d ELSE -((-n) \div d)

\* round(v, 2) on thousandths: nearest multiple of 10, ties to even.
Round2(v) ==
    LET q == v \div 10
        r == v % 10
    IN  IF r < 5 THEN 10 * q
        ELSE IF r > 5 THEN 10 * (q + 1)
        ELSE IF q % 2 = 0 THEN 10 * q ELSE 10 * (q + 1)

\* Timestamps in two halves.
Half == 65536

Ts(n) == [hi |-> n \div Half, lo |-> n % Half]
TsZero == Ts(0)
TsSucc(t) == IF t.lo = Half - 1 THEN [hi |-> t.hi + 1, lo |-> 0]
             ELSE [hi |-> t.hi, lo |-> t.lo + 1]
TsLess(a, b) == a.hi < b.hi \/ (a.hi = b.hi /\ a.lo < b.lo)
TsLeq(a, b) == a = b \/ TsLess(a, b)
\* The value of a timestamp that fits an integer of the model.
TsValue(t) == t.hi * Half + t.lo

\* 2^31 - 1 and 2^31.
MaxCInt == [hi |-> (Half \div 2) - 1, lo |-> Half - 1]
TwoTo31 == [hi |-> Half \div 2, lo |-> 0]

\* An assignment to the value of a ctypes c_int (mp.Value('i', ...)): the
\* integer is stored in 32 bits, two's complement, without overflow check.
c_int(t) == [hi |-> ((t.hi + (Half \div 2)) % Half) - (Half \div 2), lo |-> t.lo]

\* 1000*cos and 1000*sin of the sample angles k * (2 pi / 16), k = 0..15.
CosTab == <<1000, 924, 707, 383, 0, -383, -707, -924,
            -1000, -924, -707, -383, 0, 383, 707, 924>>
SinTab == <<0, 383, 707, 924, 1000, 924, 707, 383,
            0, -383, -707, -924, -1000, -924, -707, -383>>

cos(a) == CosTab[(a % FullTurn) + 1]
sin(a) == SinTab[(a % FullTurn) + 1]

----
\* Simulator: BouncingBallVideoStreamTrack.

\* np.random.randint(radius, width - radius): radius <= x < width - radius.
\* The model draws the start from both ends of that range and its middle.
StartXs == {radius, radius + 1, radius + speed, width \div 2,
            width - radius - speed, width - radius - 1}
StartYs == {radius, radius + 1, radius + speed, height \div 2,
            height - radius - speed, height - radius - 1}
\* np.random.uniform(0, 2 * np.pi), on the sample angles.
StartAngles == 0 .. (FullTurn - 1)

\* Line 51-52: the position update.
step_x(a) == Trunc(speed * cos(a), Milli)
step_y(a) == Trunc(speed * sin(a), Milli)

\* Line 55: the vertical collision test, on the updated y.
hits_y(ny) == ny >= height - radius \/ ny <= radius
\* Line 57: the horizontal collision test, on the updated x.
hits_x(nx) == nx >= width - radius \/ nx <= radius

\* Line 57 as an elif: the horizontal test skipped after a vertical bounce.
reflect_elif(a, nx, ny) ==
    IF hits_y(ny) THEN -a
    ELSE IF hits_x(nx) THEN HalfTurn - a ELSE a

\* Lines 55-58: the angle after both collision checks.
reflect(a, nx, ny) ==
    LET a1 == IF hits_y(ny) THEN -a ELSE a
    IN  IF hits_x(nx) THEN HalfTurn - a1 ELSE a1

\* Line 66 run before lines 51-52: the position the tick started from.
history_entry_before(nx, ny) == <<x, y>>

\* Line 66: the value stored under the frame's pts.
history_entry(nx, ny) == <<nx, ny>>

\* recv(): one tick.
recv ==
    /\ Cardinality(DOMAIN position_history) < MaxTicks
    /\ LET nx == x + step_x(angle)
           ny == y + step_y(angle)
       IN  /\ x' = nx
           /\ y' = ny
           /\ angle' = reflect(angle, nx, ny)
           /\ position_history' =
                [t \in DOMAIN position_history \cup {pts} |->
                    IF t = pts THEN history_entry(nx, ny) ELSE position_history[t]]
    /\ pts' = TsSucc(pts)
    /\ UNCHANGED <<handled, acks, client_vars>>

----
\* Reconciler: server_side_handler.on_message.
\*
\* A data-channel message is either binary (not a str) or a text line.  A
\* text line is modelled by what message.strip().split(' ') yields: its
\* sequence of tokens.  A token is a word, or a numeral as it is written: a
\* sign, the digits before the point (a number in two halves) and, when
\* there is a point, the decimal digits after it.

NoDigits == <<>>

WordTok(w) ==
    [k |-> "word", w |-> w, neg |-> FALSE, whole |-> TsZero,
     point |-> FALSE, frac |-> NoDigits]
Numeral(neg, whole, point, frac) ==
    [k |-> "num", w |-> "", neg |-> neg, whole |-> whole,
     point |-> point, frac |-> frac]

\* The number of opposite sign.
TsNegate(t) == IF t.lo = 0 THEN [hi |-> -t.hi, lo |-> 0]
               ELSE [hi |-> -t.hi - 1, lo |-> Half - t.lo]

\* An integer as str() writes it: a minus sign for a negative one, then the
\* digits of its magnitude.
IntTok(t) == IF t.hi < 0 THEN Numeral(TRUE, TsNegate(t), FALSE, NoDigits)
             ELSE Numeral(FALSE, t, FALSE, NoDigits)

\* The decimal digits of thousandths, hundredths first.
Digit(a, k) == CASE k = 1 -> (a \div 100) % 10
                 [] k = 2 -> (a \div 10) % 10
                 [] OTHER -> a % 10

\* v thousandths written with three decimals, as in '119.500'.
DecTok(v) ==
    Numeral(v < 0, Ts(Abs(v) \div Milli), TRUE,
            <<Digit(Abs(v), 1), Digit(Abs(v), 2), Digit(Abs(v), 3)>>)

Binary == [str |-> FALSE, tokens |-> <<>>]
Text(toks) == [str |-> TRUE, tokens |-> toks]

\* The words of the model that start with 'Location'.
LocationPrefixed == {"Location", "Locations"}

\* message.startswith('Location'), line 102.
startswith_Location(m) ==
    /\ Len(m.tokens) >= 1
    /\ m.tokens[1].k = "word"
    /\ m.tokens[1].w \in LocationPrefixed

\* The thousandths that decimal digits stand for.
FracValue(frac) ==
    (IF Len(frac) >= 1 THEN frac[1] * 100 ELSE 0)
    + (IF Len(frac) >= 2 THEN frac[2] * 10 ELSE 0)
    + (IF Len(frac) >= 3 THEN frac[3] ELSE 0)

\* float(token) succeeds on numerals, with or without a point (ValueError
\* otherwise); the value is in thousandths.
float_ok(tok) == tok.k = "num"
float(tok) ==
    LET a == TsValue(tok.whole) * Milli + FracValue(tok.frac)
    IN  IF tok.neg THEN -a ELSE a
\* int(token) succeeds on numerals without a point only (ValueError
\* otherwise).
int_ok(tok) == tok.k = "num" /\ ~tok.point
int(tok) == IF tok.neg THEN TsNegate(tok.whole) ELSE tok.whole

\* Line 108 with abs() forgotten: the signed differences.
position_error_signed(px, py, rx, ry) ==
    <<Round2(px - rx * Milli), Round2(py - ry * Milli)>>

\* Line 108: (round(abs(predicted_x - real_x), 2), round(abs(predicted_y - real_y), 2)).
position_error(px, py, rx, ry) ==
    <<Round2(Abs(px - rx * Milli)), Round2(Abs(py - ry * Milli))>>

NoValue == <<>>

Outcome(o, e, pred, real, err, ack) ==
    [outcome |-> o, exc |-> e, predicted |-> pred, real |-> real,
     error |-> err, ack |-> ack]

\* Lines 102-111, in the order the statements run.  outcome is "ignored"
\* (the if of line 102 is false), "raised" (an exception left the handler,
\* named in exc) or "done" (line 111 was reached); ack is the sequence of
\* tokens sent as 'result <token> displayed' (empty or one token).
on_message_result(hist, m) ==
    LET t == m.tokens
        n == Len(t)
        raised(e) == Outcome("raised", e, NoValue, NoValue, NoValue, <<>>)
    IN  IF ~(m.str /\ startswith_Location(m))
            THEN Outcome("ignored", "", NoValue, NoValue, NoValue, <<>>)
        ELSE IF n < 2 THEN raised("IndexError")
        ELSE IF ~float_ok(t[2]) THEN raised("ValueError")
        ELSE IF n < 3 THEN raised("IndexError")
        ELSE IF ~float_ok(t[3]) THEN raised("ValueError")
        ELSE IF n < 5 THEN raised("IndexError")
        ELSE IF ~int_ok(t[5]) THEN raised("ValueError")
        ELSE IF int(t[5]) \notin DOMAIN hist THEN raised("TypeError")
        ELSE LET px == float(t[2])
                 py == float(t[3])
                 real == hist[int(t[5])]
             IN  Outcome("done", "", <<px, py>>, real,
                         position_error(px, py, real[1], real[2]), <<t[5]>>)

\* Lines 103-106: the three values the handler reads from tokens 1, 2 and 4
\* of the split line.
parse_location(m) ==
    <<float(m.tokens[2]), float(m.tokens[3]), int(m.tokens[5])>>

\* The telemetry grammar of the wire format:
\* 'Location <float> <float> Timestamp <int>'.
WellFormed(m) ==
    /\ m.str
    /\ Len(m.tokens) = 5
    /\ m.tokens[1] = WordTok("Location")
    /\ float_ok(m.tokens[2])
    /\ float_ok(m.tokens[3])
    /\ m.tokens[4] = WordTok("Timestamp")
    /\ int_ok(m.tokens[5])

\* The messages the model delivers to the handler.
XTokens == {DecTok(119500), DecTok(418007)}
YTokens == {DecTok(81200)}
TsTokens == {IntTok(Ts(0)), IntTok(Ts(1)), IntTok(Ts(999))}

WellFormedMessages ==
    {Text(<<WordTok("Location"), tx, ty, WordTok("Timestamp"), ts>>) :
        tx \in XTokens, ty \in YTokens, ts \in TsTokens}

MalformedMessages ==
    { Text(<<WordTok("Location")>>),
      Text(<<WordTok("Location"), DecTok(119500)>>),
      Text(<<WordTok("Location"), DecTok(119500), DecTok(81200), WordTok("Timestamp")>>),
      Text(<<WordTok("Location"), WordTok("abc"), DecTok(81200), WordTok("Timestamp"), IntTok(Ts(0))>>),
      Text(<<WordTok("Location"), DecTok(119500), WordTok(""), WordTok("Timestamp"), IntTok(Ts(0))>>),
      Text(<<WordTok("Location"), DecTok(119500), DecTok(81200), WordTok("Timestamp"), DecTok(500)>>),
      Text(<<WordTok("Location"), DecTok(119500), DecTok(81200), WordTok("Timestamp"), WordTok("abc")>>),
      Text(<<WordTok("Location"), DecTok(119500), DecTok(81200), WordTok("Stamp"), IntTok(Ts(0))>>),
      Text(<<WordTok("Locations"), DecTok(119500), DecTok(81200), WordTok("Timestamp"), IntTok(Ts(0))>>),
      Text(<<WordTok("Location"), DecTok(119500), DecTok(81200), WordTok("Timestamp"), IntTok(Ts(0)), WordTok("x")>>),
      Text(<<WordTok("result"), IntTok(Ts(0)), WordTok("displayed")>>),
      Text(<<>>),
      Binary }

Messages == WellFormedMessages \cup MalformedMessages

\* Line 111 forgotten: the handler computes the error and sends nothing.
sent_by_handler_nothing(r) == <<>>

\* Line 110-111: what the handler sends on the data channel.
sent_by_handler(r) == r.ack

\* The event emitter calls on_message with one received message.  handled
\* records the message, the history it was looked up in and the result;
\* acks records each data_channel.send with the index of the message that
\* caused it.
on_message(m) ==
    /\ Len(handled) < MaxMsgs
    /\ LET r == [on_message_result(position_history, m) EXCEPT
                    !.ack = sent_by_handler(on_message_result(position_history, m))]
       IN  /\ handled' = Append(handled,
                            [msg |-> m, hist |-> position_history, result |-> r])
           /\ acks' = acks \o [i \in 1 .. Len(r.ack) |->
                                  [ts |-> r.ack[i], cause |-> Len(handled) + 1]]
    /\ UNCHANGED <<x, y, angle, pts, position_history, client_vars>>

----
\* Client: the event loop of the main process (FrameDisplay.show, the
\* telemetry sender and the data-channel handler run on its one thread, one
\* at a time) and the recognition process (track_ball_position), which runs
\* in parallel and shares frame_queue, pos_x, pos_y and timestamp with it.
\*
\* A frame is modelled by its pts and by what get_ball_contours finds on it:
\* no contour (NoBall) or the centre of the enclosing circle.

NoBall == <<>>
NoFrame == [pts |-> TsZero, det |-> NoBall]

\* The centres found on the frames of the model: the two share x, and both
\* have a third decimal, so that rounding to 2 decimals changes them.
Detections == {NoBall, <<100004, 50000>>, <<100004, 60126>>}

\* Lines 63-73.
get_ball_contours(frame) == frame.det

\* Line 88, 'if pos:': None is false, a (cx, cy) tuple is true.
truthy(p) == p # NoBall

\* A queue whose put() never waits.
put_never_blocks(q) == FALSE

\* mp.Queue(100).put on a full queue waits for a free slot.
put_blocks(q) == Len(q) >= QueueCapacity

\* What the tracker did relative to the sender's polls: cur, a field was
\* written since the running (or last) poll began; prev, a field was written
\* between the beginning of the poll before and that; idle, a field was
\* written since the last poll finished; settled, a whole poll has run since
\* the last write.
Written(w) == [w EXCEPT !.cur = TRUE, !.idle = TRUE, !.settled = FALSE]
PollBegins(w) == [w EXCEPT !.prev = w.cur, !.cur = FALSE]
PollEnds(w) == [w EXCEPT !.idle = FALSE, !.settled = ~w.cur]

\* FrameDisplay.show, one iteration of lines 34-49: a frame arrives and is
\* put on the queue.  put() is a blocking call made on the event loop's
\* thread: on a full queue the coroutine keeps the thread until a slot is free.
show(det, limit) ==
    /\ show_pc = "recv"
    /\ loop = "idle"
    /\ rx_count < limit
    /\ rx_count' = rx_count + 1
    /\ rx_pts' = TsSucc(rx_pts)
    /\ LET frame == [pts |-> rx_pts, det |-> det]
       IN  IF put_blocks(frame_queue)
           THEN /\ show_pc' = "put"
                /\ loop' = "show"
                /\ show_frame' = frame
                /\ UNCHANGED queue_vars
           ELSE /\ frame_queue' = Append(frame_queue, frame)
                /\ pushed' = Append(pushed, frame)
                /\ UNCHANGED <<show_pc, loop, show_frame, popped>>
    /\ UNCHANGED <<server_vars, link_vars, tracker_vars, shared_vars, sender_vars,
                   printed, history_vars>>

\* Line 45, put() returning after it waited for a slot.
show_put ==
    /\ show_pc = "put"
    /\ ~put_blocks(frame_queue)
    /\ frame_queue' = Append(frame_queue, show_frame)
    /\ pushed' = Append(pushed, show_frame)
    /\ show_pc' = "recv"
    /\ loop' = "idle"
    /\ show_frame' = NoFrame
    /\ UNCHANGED <<server_vars, link_vars, rx_count, rx_pts, popped, tracker_vars, shared_vars,
                   sender_vars, printed, history_vars>>

\* Lines 36-41 and 48-49: recv() raised or returned None, or 'q' was pressed.
show_end ==
    /\ show_pc = "recv"
    /\ loop = "idle"
    /\ show_pc' = "done"
    /\ UNCHANGED <<server_vars, link_vars, loop, rx_count, rx_pts, show_frame, queue_vars,
                   tracker_vars, shared_vars, sender_vars, printed, history_vars>>

\* The tracker writing timestamp.value from the frame after the current one.
written_timestamp_next(p) == c_int(TsSucc(p))

\* Line 91: the value timestamp.value holds after 'timestamp.value = pts';
\* timestamp is mp.Value('i', 0), a 32-bit signed integer.
written_timestamp(p) == c_int(p)

\* track_ball_position, lines 86-88: get a frame, detect.
track_get ==
    /\ tracker_pc = "get"
    /\ frame_queue # <<>>
    /\ LET frame == Head(frame_queue)
       IN  /\ frame_queue' = Tail(frame_queue)
           /\ popped' = Append(popped, frame)
           /\ pos' = get_ball_contours(frame)
           /\ frame_pts' = frame.pts
           /\ tracker_pc' = IF truthy(get_ball_contours(frame))
                            THEN "write_x" ELSE "get"
    /\ UNCHANGED <<server_vars, link_vars, loop, show_vars, pushed, shared_vars,
                   sender_vars, printed, history_vars>>

\* A write of one shared field by the tracker, seen from the sender: the
\* message being read is no longer read in one piece.
Disturbed(m) ==
    IF sender_pc \in {"msg_y", "msg_ts"} THEN [m EXCEPT !.calm = FALSE] ELSE m

\* Line 89.
track_write_x ==
    /\ tracker_pc = "write_x"
    /\ pos_x' = pos[1]
    /\ tracker_pc' = "write_y"
    /\ src' = [src EXCEPT ![1] = Len(popped) - 1]
    /\ msg_src' = Disturbed(msg_src)
    /\ wr' = Written(wr)
    /\ UNCHANGED <<server_vars, link_vars, loop, show_vars, queue_vars, pos, frame_pts,
                   pos_y, timestamp, sender_vars, printed>>

\* Line 90.
track_write_y ==
    /\ tracker_pc = "write_y"
    /\ pos_y' = pos[2]
    /\ tracker_pc' = "write_ts"
    /\ src' = [src EXCEPT ![2] = Len(popped) - 1]
    /\ msg_src' = Disturbed(msg_src)
    /\ wr' = Written(wr)
    /\ UNCHANGED <<server_vars, link_vars, loop, show_vars, queue_vars, pos, frame_pts,
                   pos_x, timestamp, sender_vars, printed>>

\* Line 91.
track_write_ts ==
    /\ tracker_pc = "write_ts"
    /\ timestamp' = written_timestamp(frame_pts)
    /\ tracker_pc' = "get"
    /\ src' = [src EXCEPT ![3] = Len(popped) - 1]
    /\ msg_src' = Disturbed(msg_src)
    /\ wr' = Written(wr)
    /\ UNCHANGED <<server_vars, link_vars, loop, show_vars, queue_vars, pos, frame_pts,
                   pos_x, pos_y, sender_vars, printed>>

\* handle_answer.on_datachannel, line 173: the sender task is created.
on_datachannel ==
    /\ sender_pc = "unstarted"
    /\ loop = "idle"
    /\ sender_pc' = "created"
    /\ UNCHANGED <<server_vars, link_vars, loop, show_vars, queue_vars, tracker_vars,
                   shared_vars, prev_pos_x, prev_pos_y, prev_timestamp,
                   msg_x, msg_y, sent, printed, history_vars>>

sender_locals == <<prev_pos_x, prev_pos_y, prev_timestamp, msg_x, msg_y, sent>>
not_sender == <<server_vars, show_vars, queue_vars, tracker_vars, shared_vars,
                printed, link_vars>>

\* send_position_on_change, line 141: the task runs for the first time.
sender_init_x ==
    /\ sender_pc = "created"
    /\ loop = "idle"
    /\ loop' = "sender"
    /\ prev_pos_x' = pos_x
    /\ sender_pc' = "init_y"
    /\ wr' = PollBegins(wr)
    /\ UNCHANGED <<not_sender, prev_pos_y, prev_timestamp, msg_x, msg_y, sent,
                   src, msg_src>>

\* Line 142.
sender_init_y ==
    /\ sender_pc = "init_y"
    /\ prev_pos_y' = pos_y
    /\ sender_pc' = "init_ts"
    /\ UNCHANGED <<not_sender, loop, prev_pos_x, prev_timestamp, msg_x, msg_y,
                   sent, history_vars>>

\* Line 143.
sender_init_ts ==
    /\ sender_pc = "init_ts"
    /\ prev_timestamp' = timestamp
    /\ sender_pc' = "cmp_x"
    /\ UNCHANGED <<not_sender, loop, prev_pos_x, prev_pos_y, msg_x, msg_y,
                   sent, history_vars>>

\* The change test with == for !=.
changed_inverted(now, before) == now = before

\* Line 146: one operand of the change test.
changed(now, before) == now # before

\* Line 146, first operand; a poll begins here, after the sleep of line 152
\* or right after the first snapshot.
sender_cmp_x ==
    /\ \/ sender_pc = "sleep" /\ loop = "idle"
       \/ sender_pc = "cmp_x"
    /\ loop' = "sender"
    /\ sender_pc' = IF changed(pos_x, prev_pos_x) THEN "msg_x" ELSE "cmp_y"
    /\ wr' = PollBegins(wr)
    /\ UNCHANGED <<not_sender, sender_locals, src, msg_src>>

\* Line 146, second operand.
sender_cmp_y ==
    /\ sender_pc = "cmp_y"
    /\ sender_pc' = IF changed(pos_y, prev_pos_y) THEN "msg_x" ELSE "cmp_ts"
    /\ UNCHANGED <<not_sender, loop, sender_locals, history_vars>>

\* Line 146, third operand; when nothing changed, line 152: the poll ends.
sender_cmp_ts ==
    /\ sender_pc = "cmp_ts"
    /\ IF changed(timestamp, prev_timestamp)
       THEN /\ sender_pc' = "msg_x"
            /\ UNCHANGED <<loop, wr>>
       ELSE /\ sender_pc' = "sleep"
            /\ loop' = "idle"
            /\ wr' = PollEnds(wr)
    /\ UNCHANGED <<not_sender, sender_locals, src, msg_src>>

\* The hundredths written without their leading zero: '60.5' for 60.05.
str_float_unpadded(v) ==
    Numeral(v < 0, Ts(Abs(v) \div Milli), TRUE,
            IF Digit(Abs(v), 2) = 0 \/ Digit(Abs(v), 1) = 0
            THEN <<Digit(Abs(v), 1) + Digit(Abs(v), 2)>>
            ELSE <<Digit(Abs(v), 1), Digit(Abs(v), 2)>>)

\* A float that round(., 2) returned, as the f-string of line 147 writes
\* it: the shortest digits that read back as the same float, with at least
\* one decimal ('100.0', '60.1', '60.13').
str_float(v) ==
    Numeral(v < 0, Ts(Abs(v) \div Milli), TRUE,
            IF Digit(Abs(v), 2) = 0 THEN <<Digit(Abs(v), 1)>>
            ELSE <<Digit(Abs(v), 1), Digit(Abs(v), 2)>>)

\* Line 148, channel.send: the message goes out on an open channel only.
send_accepted(c) == c = "open"

\* The peer or the transport closes the data channel; the event loop runs
\* the state change between two callbacks.
channel_close ==
    /\ loop = "idle"
    /\ sender_pc # "unstarted"
    /\ channel = "open"
    /\ channel' = "closed"
    /\ UNCHANGED <<server_vars, parsed, loop, show_vars, queue_vars, tracker_vars,
                   shared_vars, sender_vars, printed, history_vars>>

\* Line 147: f'Location {x} {y} Timestamp {ts}' of the rounded fields.
serialize(rx, ry, ts) ==
    Text(<<WordTok("Location"), str_float(rx), str_float(ry),
           WordTok("Timestamp"), IntTok(ts)>>)

\* Line 147, round(pos_x.value, 2).
sender_msg_x ==
    /\ sender_pc = "msg_x"
    /\ msg_x' = Round2(pos_x)
    /\ msg_src' = [x |-> src[1], y |-> -1,
                   calm |-> tracker_pc \notin {"write_y", "write_ts"}]
    /\ sender_pc' = "msg_y"
    /\ UNCHANGED <<not_sender, loop, prev_pos_x, prev_pos_y, prev_timestamp,
                   msg_y, sent, src, wr>>

\* Line 147, round(pos_y.value, 2).
sender_msg_y ==
    /\ sender_pc = "msg_y"
    /\ msg_y' = Round2(pos_y)
    /\ msg_src' = [msg_src EXCEPT !.y = src[2]]
    /\ sender_pc' = "msg_ts"
    /\ UNCHANGED <<not_sender, loop, prev_pos_x, prev_pos_y, prev_timestamp,
                   msg_x, sent, src, wr>>

\* Lines 147-148: timestamp.value is read and the message is sent.  Each
\* entry of sent holds the message, the frame each of its fields was written
\* from, and whether the tracker left the fields alone while they were read.
\* channel.send raises InvalidStateError unless the channel is open; the
\* exception leaves the coroutine and ends the task.
sender_msg_ts ==
    /\ sender_pc = "msg_ts"
    /\ IF send_accepted(channel)
       THEN /\ sent' = Append(sent, [msg |-> serialize(msg_x, msg_y, timestamp),
                                    src |-> <<msg_src.x, msg_src.y, src[3]>>,
                                    calm |-> msg_src.calm])
            /\ sender_pc' = "prev_x"
            /\ UNCHANGED loop
       ELSE /\ sender_pc' = "raised"
            /\ loop' = "idle"
            /\ UNCHANGED sent
    /\ UNCHANGED <<not_sender, prev_pos_x, prev_pos_y, prev_timestamp,
                   msg_x, msg_y, history_vars>>

\* Line 149.
sender_prev_x ==
    /\ sender_pc = "prev_x"
    /\ prev_pos_x' = pos_x
    /\ sender_pc' = "prev_y"
    /\ UNCHANGED <<not_sender, loop, prev_pos_y, prev_timestamp, msg_x, msg_y,
                   sent, history_vars>>

\* Line 150.
sender_prev_y ==
    /\ sender_pc = "prev_y"
    /\ prev_pos_y' = pos_y
    /\ sender_pc' = "prev_ts"
    /\ UNCHANGED <<not_sender, loop, prev_pos_x, prev_timestamp, msg_x, msg_y,
                   sent, history_vars>>

\* Lines 151-152: the poll ends.
sender_prev_ts ==
    /\ sender_pc = "prev_ts"
    /\ prev_timestamp' = timestamp
    /\ sender_pc' = "sleep"
    /\ loop' = "idle"
    /\ wr' = PollEnds(wr)
    /\ UNCHANGED <<not_sender, prev_pos_x, prev_pos_y, msg_x, msg_y, sent,
                   src, msg_src>>

\* The lines the peer sends to the client in the model.
Inbound == { Text(<<WordTok("result"), IntTok(Ts(0)), WordTok("displayed")>>),
             Text(<<WordTok("Location")>>) }

\* message.startswith('result'), line 177.
startswith_result(m) ==
    /\ Len(m.tokens) >= 1
    /\ m.tokens[1] = WordTok("result")

\* handle_answer.on_message, lines 176-178, registered by on_datachannel.
client_on_message(m) ==
    /\ sender_pc # "unstarted"
    /\ loop = "idle"
    /\ printed' = IF m.str /\ startswith_result(m) THEN m ELSE printed
    /\ UNCHANGED <<server_vars, link_vars, loop, show_vars, queue_vars, tracker_vars,
                   shared_vars, sender_vars, history_vars>>

\* The pts of the first frame the client receives: the beginning of a
\* stream, and a stream whose second frame has pts 2^31.
StartPts == {TsZero, MaxCInt}

\* __main__, lines 191-197, before any event.
InitProcesses ==
    /\ loop = "idle"
    /\ show_pc = "recv"
    /\ rx_count = 0
    /\ rx_pts \in StartPts
    /\ show_frame = NoFrame
    /\ frame_queue = <<>>
    /\ pushed = <<>>
    /\ popped = <<>>
    /\ tracker_pc = "get"
    /\ pos = NoBall
    /\ frame_pts = TsZero
    /\ sender_pc = "unstarted"
    /\ prev_pos_x = 0
    /\ prev_pos_y = 0
    /\ prev_timestamp = TsZero
    /\ msg_x = 0
    /\ msg_y = 0
    /\ sent = <<>>
    /\ printed = NoValue
    /\ channel = "open"
    /\ parsed = NoValue
    /\ src = <<-1, -1, -1>>
    /\ msg_src = [x |-> -1, y |-> -1, calm |-> TRUE]
    /\ wr = [cur |-> FALSE, prev |-> FALSE, idle |-> FALSE, settled |-> FALSE]

\* Lines 192-194: the shared estimate as __main__ creates it.
InitEstimate ==
    /\ pos_x = 0
    /\ pos_y = 0
    /\ timestamp = TsZero

InitClient == InitProcesses /\ InitEstimate

tracker == track_get \/ track_write_x \/ track_write_y \/ track_write_ts

\* Lines 141-146 and 152: the snapshot and the change test.
sender_polls ==
    \/ sender_init_x \/ sender_init_y \/ sender_init_ts
    \/ sender_cmp_x \/ sender_cmp_y \/ sender_cmp_ts

\* Lines 147-151: the body of the if.
sender_sends ==
    \/ sender_msg_x \/ sender_msg_y \/ sender_msg_ts
    \/ sender_prev_x \/ sender_prev_y \/ sender_prev_ts

sender == sender_polls \/ sender_sends

InitSim ==
    /\ x \in StartXs
    /\ y \in StartYs
    /\ angle \in StartAngles
    /\ pts = TsZero
    /\ position_history = <<>>
    /\ handled = <<>>
    /\ acks = <<>>
    /\ InitClient
    /\ rx_pts = TsZero

NextSim == recv

SpecSim == InitSim /\ [][NextSim]_vars

\* The server: the simulator producing frames while the reconciler handles
\* the messages of the data channel.
InitServer ==
    /\ x = width \div 2
    /\ y = radius + 1
    /\ angle = FullTurn - 1
    /\ pts = TsZero
    /\ position_history = <<>>
    /\ handled = <<>>
    /\ acks = <<>>
    /\ InitClient
    /\ rx_pts = TsZero

NextServer ==
    \/ recv
    \/ \E m \in Messages : on_message(m)

SpecServer == InitServer /\ [][NextServer]_vars

\* The server before it produced a frame or received a message.
InitServerIdle ==
    /\ x = width \div 2
    /\ y = height \div 2
    /\ angle = 0
    /\ pts = TsZero
    /\ position_history = <<>>
    /\ handled = <<>>
    /\ acks = <<>>

\* The client on a short stream of frames with any detections.
InitClientSpec == InitServerIdle /\ InitClient

NextClient ==
    \/ \E det \in Detections : show(det, MaxFrames)
    \/ show_end
    \/ tracker
    \/ on_datachannel
    \/ sender

SpecClient == InitClientSpec /\ [][NextClient]_vars

\* The client on a stream during which the data channel closes.
InitClose == InitClientSpec /\ rx_pts = TsZero

\* Detections of this stream: one has a center on the frame's left edge.
EdgeDetections == {NoBall, <<100004, 50000>>, <<0, 60126>>}

NextClose ==
    \/ \E det \in EdgeDetections : show(det, MaxFrames)
    \/ tracker
    \/ on_datachannel
    \/ channel_close
    \/ sender

SpecClose == InitClose /\ [][NextClose]_vars

\* The client on a long stream on which no ball is found: the tracker
\* writes nothing and the sender never enters the body of its if, while the
\* frame queue fills and drains.
NextSink ==
    \/ show(NoBall, SinkFrames)
    \/ show_put
    \/ track_get
    \/ on_datachannel
    \/ sender_polls
    \/ \E m \in Inbound : client_on_message(m)

InitSink == InitClientSpec /\ rx_pts = TsZero

SpecSink == InitSink /\ [][NextSink]_vars

\* The wire format alone: an estimate the tracker has left in the shared
\* fields is serialized as the sender does and parsed as the server does.
EstimateXs == {0, 5, 15, 25, 60054, 60126, 99995, 100004, 119500, 400100,
               799996, -60126}
EstimateYs == {0, 50000, 60126, 369999}
EstimateTs == {TsZero, Ts(1), Ts(90000), MaxCInt, c_int(TwoTo31)}

InitRoundTrip ==
    /\ InitServerIdle
    /\ InitProcesses
    /\ rx_pts = TsZero
    /\ pos_x \in EstimateXs
    /\ pos_y \in EstimateYs
    /\ timestamp \in EstimateTs

\* client.py line 147 followed by server.py lines 103-106.
round_trip ==
    /\ parsed = NoValue
    /\ parsed' = parse_location(serialize(Round2(pos_x), Round2(pos_y), timestamp))
    /\ UNCHANGED <<server_vars, channel, loop, show_vars, queue_vars, tracker_vars,
                   shared_vars, sender_vars, printed, history_vars>>

NextRoundTrip == round_trip

SpecRoundTrip == InitRoundTrip /\ [][NextRoundTrip]_vars

----
\* C1: in the initial state and after every recv(), the ball's centre is
\* inside the frame by at least its radius:
\* radius <= x <= width - radius and radius <= y <= height - radius.
C1_PositionBounds ==
    /\ radius <= x /\ x <= width - radius
    /\ radius <= y /\ y <= height - radius

----
\* Claims about the reconciler, checked under SpecServer.

Known(h) == int(h.msg.tokens[5]) \in DOMAIN h.hist

\* C4: a well-formed telemetry message whose timestamp is not a key of
\* position_history does not make the handler raise, computes no error and
\* is still acknowledged once with 'result <ts> displayed'.
C4_UnknownTimestampAcknowledged ==
    \A i \in 1 .. Len(handled) :
        (WellFormed(handled[i].msg) /\ ~Known(handled[i])) =>
            /\ handled[i].result.outcome # "raised"
            /\ handled[i].result.error = NoValue
            /\ handled[i].result.ack = <<handled[i].msg.tokens[5]>>

\* C5: an inbound text line that does not match the telemetry grammar is
\* rejected whole: the handler does not raise, computes no error and sends
\* no acknowledgment.
C5_MalformedRejected ==
    \A i \in 1 .. Len(handled) :
        (handled[i].msg.str /\ ~WellFormed(handled[i].msg)) =>
            /\ handled[i].result.outcome # "raised"
            /\ handled[i].result.error = NoValue
            /\ handled[i].result.ack = <<>>

\* e is d rounded to 2 decimals: a non-negative multiple of 0.01 nearest to d.
IsRounded2(e, d) == e >= 0 /\ e % 10 = 0 /\ Abs(e - d) <= 5

\* C6: for every well-formed telemetry message (px, py, ts) with ts in
\* position_history as (ax, ay), the handler reports predicted (px, py),
\* actual (ax, ay) and the error (|px - ax|, |py - ay|) rounded to 2
\* decimals; history {7: (120, 80)} and 'Location 119.50 81.20 Timestamp 7'
\* give (0.50, 1.20).
C6_ReconciliationError ==
    /\ \A i \in 1 .. Len(handled) :
        LET h == handled[i]
            r == h.result
        IN  (WellFormed(h.msg) /\ Known(h)) =>
                /\ r.outcome = "done"
                /\ r.predicted = <<float(h.msg.tokens[2]), float(h.msg.tokens[3])>>
                /\ r.real = h.hist[int(h.msg.tokens[5])]
                /\ IsRounded2(r.error[1], Abs(r.predicted[1] - r.real[1] * Milli))
                /\ IsRounded2(r.error[2], Abs(r.predicted[2] - r.real[2] * Milli))
    /\ on_message_result((Ts(7) :> <<120, 80>>),
            Text(<<WordTok("Location"), DecTok(119500), DecTok(81200),
                   WordTok("Timestamp"), IntTok(Ts(7))>>)).error = <<500, 1200>>

\* C6 witness: a well-formed message with a known timestamp was handled, and
\* its error had to be rounded (119.50 and 418.007 against the pixel 418).
C6_Witness ==
    \E i \in 1 .. Len(handled) :
        /\ WellFormed(handled[i].msg) /\ Known(handled[i])
        /\ handled[i].result.predicted[1] = 418007
        /\ handled[i].result.real[1] = 418
        /\ handled[i].result.error = <<10, 57200>>

\* C7: every well-formed message with a known timestamp causes exactly one
\* acknowledgment, which carries that message's timestamp; acknowledgments
\* are sent in the arrival order of the messages that caused them; and every
\* acknowledgment was caused by a received 'Location' text line whose
\* timestamp token it carries.
C7_AcknowledgmentProtocol ==
    /\ \A i \in 1 .. Len(handled) :
        (WellFormed(handled[i].msg) /\ Known(handled[i])) =>
            /\ Cardinality({j \in 1 .. Len(acks) : acks[j].cause = i}) = 1
            /\ \A j \in 1 .. Len(acks) :
                  acks[j].cause = i => acks[j].ts = handled[i].msg.tokens[5]
    /\ \A j, k \in 1 .. Len(acks) : j < k => acks[j].cause < acks[k].cause
    /\ \A j \in 1 .. Len(acks) :
        /\ acks[j].cause \in 1 .. Len(handled)
        /\ handled[acks[j].cause].msg.str
        /\ startswith_Location(handled[acks[j].cause].msg)
        /\ Len(handled[acks[j].cause].msg.tokens) >= 5
        /\ acks[j].ts = handled[acks[j].cause].msg.tokens[5]

\* C7 witness: two well-formed messages with known, different timestamps
\* were handled one after the other, and both acknowledgments are out.
C7_Witness ==
    /\ Len(handled) = MaxMsgs
    /\ Len(acks) >= 2
    /\ acks[1].ts # acks[2].ts
    /\ \E i, j \in 1 .. Len(handled) :
        /\ i < j
        /\ WellFormed(handled[i].msg) /\ Known(handled[i])
        /\ WellFormed(handled[j].msg) /\ Known(handled[j])

----
\* Claims about the tracker, the shared estimate and the telemetry sender,
\* checked under SpecClient.

\* The sender is in the body of its if: this poll sends a message.
Sending == sender_pc \in {"msg_x", "msg_y", "msg_ts"}

\* C2 as stated: a poll sends no message when the tracker wrote none of the
\* three shared fields since the previous poll finished.
C2_NoSendUnlessWrittenSincePollEnd == Sending => wr.idle

\* C2: a poll sends no message when the tracker wrote none of the three
\* shared fields since the previous poll (or, for the first poll, the
\* snapshot of lines 141-143) began; a write that falls inside the previous
\* poll, after that poll read the field, is reported by this one.
C2_NoSendUnlessWrittenSincePollBegin == Sending => (wr.cur \/ wr.prev)

\* C2 witness: after a message was sent, a poll ran from its beginning to
\* its end with nothing written since the poll before it began, and sent
\* nothing.
C2_Witness ==
    /\ sender_pc = "sleep"
    /\ ~wr.cur /\ ~wr.prev
    /\ Len(sent) = 1
    /\ timestamp # TsZero

\* The telemetry line of the estimate now in the shared fields.
LineOfShared == serialize(Round2(pos_x), Round2(pos_y), timestamp)

\* C3: once the tracker has stopped writing (it waits for a frame) and the
\* shared estimate has stayed unchanged across a whole poll, the last message
\* sent carries that estimate: the final estimate is the last one reported.
C3_SettledEstimateWasSent ==
    (wr.settled /\ tracker_pc = "get" /\ sent # <<>>) =>
        sent[Len(sent)].msg = LineOfShared

\* The n-th frame the tracker got, counted from 0.
Got(n) == popped[n + 1]

\* Two timestamps that agree in their low 32 bits.
SameLow32(a, b) == a.lo = b.lo /\ (a.hi - b.hi) % Half = 0

\* Field k of a message is the initial 0 or the tracker's write from the
\* frame the message records for it.
FromFrame(m, k, value) ==
    IF m.src[k] = -1
    THEN value = IF k = 3 THEN TsZero ELSE 0
    ELSE /\ m.src[k] + 1 \in 1 .. Len(popped)
         /\ truthy(Got(m.src[k]).det)
         /\ CASE k = 1 -> value = Round2(Got(m.src[k]).det[1])
              [] k = 2 -> value = Round2(Got(m.src[k]).det[2])
              [] OTHER -> SameLow32(value, Got(m.src[k]).pts)

InOnePiece(m) == m.src[1] = m.src[2] /\ m.src[2] = m.src[3] /\ m.src[1] >= 0

\* C8 as stated: the x, y and timestamp of every message sent come from one
\* single frame processed by the tracker.
C8_NeverTorn == \A i \in 1 .. Len(sent) : InOnePiece(sent[i])

\* C8: each of x, y and timestamp of every message sent is the initial 0 or
\* was written by the tracker from a frame it processed and found the ball
\* on; the three come from one single frame when the tracker is not between
\* its writes of lines 89-91 as the sender begins to read the fields for the
\* message (line 147) and writes none of them until the sender has read all
\* three.  The update is not atomic with respect to the sender's reads.
C8_TornOnlyUnderConcurrentWrite ==
    \A i \in 1 .. Len(sent) :
        /\ FromFrame(sent[i], 1, float(sent[i].msg.tokens[2]))
        /\ FromFrame(sent[i], 2, float(sent[i].msg.tokens[3]))
        /\ FromFrame(sent[i], 3, int(sent[i].msg.tokens[5]))
        /\ sent[i].calm => InOnePiece(sent[i])

\* C8 witness: after the tracker processed two frames with the ball, a
\* message was read with no concurrent write and carries the second frame.
C8_Witness ==
    \E i \in 1 .. Len(sent) :
        /\ sent[i].calm
        /\ InOnePiece(sent[i])
        /\ sent[i].src[1] >= 1
        /\ \E p \in 0 .. (sent[i].src[1] - 1) : truthy(Got(p).det)

----
\* Claims about the frame queue and the event loop, checked under SpecSink.

\* C9: the frame queue never holds more than 100 frames; the frames put so
\* far are, in the order show received them, the frames the tracker got
\* followed by the frames still queued, so the tracker gets them in the
\* order they were put, none lost and none twice; and a put that found the
\* queue full has not completed while its frame is held by show.
C9_FrameSinkBoundedFifo ==
    /\ Len(frame_queue) <= QueueCapacity
    /\ pushed = popped \o frame_queue
    /\ \A i \in 1 .. Len(pushed) : pushed[i].pts = Ts(i - 1)
    /\ IF show_pc = "put"
       THEN /\ show_frame.pts = Ts(rx_count - 1)
            /\ Len(pushed) = rx_count - 1
       ELSE Len(pushed) = rx_count

\* C9 witness: a put found the queue full, waited until the tracker got a
\* frame, completed, and the queue is full again.
C9_Witness ==
    /\ Len(pushed) = QueueCapacity + 1
    /\ Len(popped) = 1
    /\ Len(frame_queue) = QueueCapacity
    /\ show_pc = "recv"

\* C10: whatever the tracker does, the event loop can run the sender's next
\* poll when it is due and can handle an inbound data-channel message.
C10_EventDomainNeverBlocked ==
    /\ sender_pc = "sleep" => ENABLED sender_cmp_x
    /\ (sender_pc # "unstarted" /\ loop # "sender") =>
          \A m \in Inbound : ENABLED client_on_message(m)

\* C11: once the frame-receiving loop has ended and the frame queue is
\* drained, the tracker is not left waiting in frame_queue.get(): it has
\* stopped, or it still has a step to take.
C11_TrackerStopsAfterStream ==
    (show_pc = "done" /\ frame_queue = <<>>) =>
        (tracker_pc = "stopped" \/ ENABLED tracker)

\* C12: after the data channel has closed, the sender never calls
\* channel.send again: no poll ends in a send on the closed channel.
C12_NoSendOnClosedChannel ==
    channel = "closed" => sender_pc # "raised"

\* The last of the first n frames the tracker got in which
\* get_ball_contours found a center; 0 when there is none.
RECURSIVE LastCenter(_)
LastCenter(n) ==
    IF n = 0 THEN 0
    ELSE IF popped[n].det # NoBall THEN n
    ELSE LastCenter(n - 1)

\* C13: when the tracker has finished its step on a frame, the three shared
\* fields hold the center and the timestamp of the last frame in which a
\* center was found, whatever its coordinates; frames without a detection
\* left all three fields as they were (the initial zeros when no frame had a
\* center).
C13_FrameEffect ==
    tracker_pc = "get" =>
        LET n == LastCenter(Len(popped))
        IN  IF n = 0
            THEN pos_x = 0 /\ pos_y = 0 /\ timestamp = TsZero
            ELSE /\ pos_x = popped[n].det[1]
                 /\ pos_y = popped[n].det[2]
                 /\ timestamp = popped[n].pts

\* The simulator's position_history has one key per frame it produced: the
\* pts from 0 up to its newest frame.  Every frame the client received was
\* produced, so a timestamp from 0 up to the newest pts received is a key,
\* and a negative one is not.
KnownToSimulator(ts) == TsLeq(TsZero, ts) /\ TsLess(ts, rx_pts)

\* C14: the timestamp of every telemetry message sent is a key of the
\* simulator's position_history, for any interleaving of the tracker's
\* writes and the sender's reads.
C14_TimestampKnownToSimulator ==
    \A i \in 1 .. Len(sent) : KnownToSimulator(int(sent[i].msg.tokens[5]))

\* C15: parsing the serialized estimate as the server does (tokens 1, 2 and
\* 4 of the line split on spaces) yields exactly round(x, 2), round(y, 2)
\* and the timestamp that were serialized.
C15_RoundTrip ==
    parsed # NoValue =>
        parsed = <<Round2(pos_x), Round2(pos_y), timestamp>>

\* C15 witness: an estimate whose x has a zero tenth, whose y rounds up and
\* whose timestamp is negative has made the round trip.
C15_Witness ==
    /\ parsed # NoValue
    /\ pos_x = 60054
    /\ pos_y = 60126
    /\ timestamp.hi < 0

\* C16: in one tick, after the position update, the angle is negated exactly
\* when the new y is at or beyond the top or bottom limit, and the result is
\* then replaced by pi minus itself exactly when the new x is at or beyond
\* the left or right limit: pi + angle when both limits are hit, the angle
\* unchanged when neither is.
C16_ReflectionLaw ==
    [][pts' # pts =>
        LET atY == y' >= height - radius \/ y' <= radius
            atX == x' >= width - radius \/ x' <= radius
        IN  angle' = CASE atY /\ atX -> HalfTurn + angle
                       [] atY /\ ~atX -> -angle
                       [] ~atY /\ atX -> HalfTurn - angle
                       [] OTHER -> angle]_vars

\* C16 witness: a tick has taken the ball beyond a vertical and a horizontal
\* limit at once, and the next tick has been taken with the angle it left.
C16_Witness ==
    /\ pts = Ts(2)
    /\ position_history[TsZero][1] <= radius
    /\ position_history[TsZero][2] <= radius
    /\ x > position_history[TsZero][1]
    /\ y > position_history[TsZero][2]

\* C17: after a poll that sent a message, the snapshot (prev_pos_x,
\* prev_pos_y, prev_timestamp) holds the values that were serialized into
\* that message, so that it rounds to the message's fields, whatever the
\* tracker wrote meanwhile; polls that send nothing leave it as it is.
C17_SnapshotIsWhatWasSent ==
    (sender_pc = "sleep" /\ sent # <<>>) =>
        LET last == sent[Len(sent)].msg
        IN  /\ Round2(prev_pos_x) = float(last.tokens[2])
            /\ Round2(prev_pos_y) = float(last.tokens[3])
            /\ prev_timestamp = int(last.tokens[5])

\* C18: a tick adds to position_history exactly one entry, under the pts of
\* the frame it produced, holding the (x, y) after that tick's position
\* update, which is where the frame's disc is drawn; every entry already
\* there stays as it is; and any other step, the handling of a message
\* included, leaves position_history as it is.
C18_HistoryFaithfulAppendOnly ==
    [][/\ \A t \in DOMAIN position_history :
              /\ t \in DOMAIN position_history'
              /\ position_history'[t] = position_history[t]
       /\ IF pts' # pts
          THEN /\ DOMAIN position_history' = DOMAIN position_history \cup {pts}
               /\ pts \notin DOMAIN position_history
               /\ position_history'[pts] = <<x', y'>>
          ELSE position_history' = position_history]_vars

\* C18 witness: two ticks with a message handled between them, the ball
\* having moved on from the first entry.
C18_Witness ==
    /\ DOMAIN position_history = {TsZero, Ts(1)}
    /\ Len(handled) = 1
    /\ handled[1].hist = (TsZero :> position_history[TsZero])
    /\ position_history[Ts(1)] = <<x, y>>
    /\ position_history[TsZero] # <<x, y>>

\* C19: the timestamps of the telemetry messages, in the order they were
\* sent, never decrease, for any interleaving of the tracker's writes and
\* the sender's reads.
C19_TimestampsNeverDecrease ==
    \A i, j \in 1 .. Len(sent) :
        i < j => TsLeq(int(sent[i].msg.tokens[5]), int(sent[j].msg.tokens[5]))

\* C20: a timestamp goes through the shared 32-bit integer without loss: a
\* message whose timestamp field was written by the tracker from a frame
\* carries that frame's pts, also when the pts is 2^31 or more.
C20_TimestampCarriedWithoutLoss ==
    \A i \in 1 .. Len(sent) :
        sent[i].src[3] >= 0 =>
            int(sent[i].msg.tokens[5]) = Got(sent[i].src[3]).pts

====
